---- MODULE Spec2Model ----
(***************************************************************************)
(* Clinical Trial Patient Matcher front end: the App component (both       *)
(* revisions kept in App.jsx) and the MS4TrialMatchResults component it    *)
(* mounts.  Every await of the handlers is a suspension point; the reply   *)
(* of the awaited request is a separate action.                            *)
(***************************************************************************)
EXTENDS Integers, Sequences, FiniteSets

\* ---------------------------------------------------------------- bounds
MaxSearches == 2       \* searches started in one behaviour
MaxPatients == 2       \* longest identifier list of the patient-list reply
MaxMatchReqs == 2      \* match requests awaiting their reply at one time
MaxBoxSearches == 3    \* handleSearch calls of the free-text search
MaxTenths == 1000      \* largest match_percentage, in tenths of a percent
MaxResults == 3        \* longest ranked_results list handed to sortResults
MaxPolls == 2          \* requests of one kind a monitor has in flight
MaxMounts == 2         \* mounts of the health monitor in one behaviour
MaxTime == 40000       \* milliseconds of monitor time in one behaviour

\* ------------------------------------------------------------- constants
NoId == "undefined"    \* a missing (falsy) field / null

CONDITIONS == {"diabetes", "dementia", "cancer"}

TrialIds == {"NCT001", "NCT002", "NCT003"}

\* trial records as the search service returns them; each carries its
\* identifier under one of the field names the code probes
Trial(title, a, b, c, d) ==
    [title |-> title, nctid |-> a, NCT_ID |-> b, nct_id |-> c, id |-> d]
TA == Trial("A", NoId, NoId, "NCT001", NoId)
TB == Trial("B", "NCT002", NoId, NoId, NoId)
TC == Trial("C", NoId, NoId, NoId, "NCT003")
NullTrial == Trial(NoId, NoId, NoId, NoId, NoId)

\* the non-empty trial lists a search reply may carry
TrialLists == { <<TA, TB>>, <<TB, TC>> }

\* a record that carries no identifier at all
TN == Trial("N", NoId, NoId, NoId, NoId)

\* trial lists with a record the criteria fetcher cannot resolve (TC in the
\* second revision, TN in both) ahead of one it can
SkipLists == { <<TN, TA>>, <<TC, TB>> }

\* a || b on identifiers
Or(a, b) == IF a # NoId THEN a ELSE b

\* the identifier the criteria fetcher resolves for a trial
CriteriaKey(v, trial) ==
    IF v = 1
    THEN Or(trial.nctid, Or(trial.NCT_ID, Or(trial.nct_id, trial.id)))
    ELSE Or(trial.nct_id, Or(trial.NCT_ID, trial.nctid))

\* the identifier the trial list resolves to look the criteria up
DisplayKey(v, trial) ==
    IF v = 1
    THEN Or(trial.nctid, Or(trial.NCT_ID, Or(trial.nct_id, trial.id)))
    ELSE Or(trial.nct_id, Or(trial.NCT_ID, trial.nctid))

\* the identifier MS4TrialMatchResults resolves for its trialData prop
MatchTrialId(trial) == Or(trial.nct_id, Or(trial.nctid, trial.NCT_ID))

\* values of a parsedCache slot: key absent, parsed document, null
Absent == "absent"
Doc == "doc"
NullEntry == "null"
Truthy(v) == v = Doc
EmptyCache == [t \in TrialIds |-> Absent]

\* outcomes of a request
SearchOutcomes ==
    {"trials", "empty", "message", "neterr", "httperr_json", "httperr_text"}
FetchOutcomes == {"ok", "httperr", "neterr"}
DetailOutcomes == {"ok", "neterr", "httperr_json", "httperr_text"}

GenericError == "Error fetching data. Please try again."

\* ------------------------------------------------------ patient records
PatientIds == 1..MaxPatients
RECURSIVE Asc(_)
Asc(n) == IF n = 0 THEN <<>> ELSE Append(Asc(n - 1), n)
Desc(n) == [i \in 1..n |-> MaxPatients + 1 - i]
\* identifier lists of the patient-list reply
PatientLists == {Asc(n) : n \in 0..MaxPatients} \cup {Desc(MaxPatients)}

Pending == [kind |-> "pending", req |-> 0]
\* what one detail promise resolves to
DetailValue(id, outcome) ==
    CASE outcome = "ok" -> [kind |-> "full", req |-> id]
      [] outcome = "httperr_json" -> [kind |-> "errbody", req |-> id]
      [] OTHER -> [kind |-> "minimal", req |-> id]

\* ------------------------------------------------------- match results
MatchResult(t, pid, rank, pct) ==
    [trial |-> t, patient_id |-> pid, rank |-> rank, match_percentage |-> pct]
\* ranked_results lists of a match reply for trial t
MatchReplies(t) ==
    { <<>>, << MatchResult(t, <<2>>, 2, 55), MatchResult(t, <<1>>, 1, 90) >> }

RECURSIVE LexCmp(_, _)
LexCmp(a, b) ==
    IF a = <<>> THEN (IF b = <<>> THEN 0 ELSE -1)
    ELSE IF b = <<>> THEN 1
    ELSE IF Head(a) < Head(b) THEN -1
    ELSE IF Head(a) > Head(b) THEN 1
    ELSE LexCmp(Tail(a), Tail(b))

\* a comparator that orders the percentages upwards
Compare_PercentageAscending(sortBy, a, b) ==
    CASE sortBy = "percentage" -> a.match_percentage - b.match_percentage
      [] sortBy = "name" -> LexCmp(a.patient_id, b.patient_id)
      [] OTHER -> (IF a.rank = 0 THEN 999 ELSE a.rank)
                  - (IF b.rank = 0 THEN 999 ELSE b.rank)

\* the comparator sortResults hands to Array.prototype.sort
Compare(sortBy, a, b) ==
    CASE sortBy = "percentage" -> b.match_percentage - a.match_percentage
      [] sortBy = "name" -> LexCmp(a.patient_id, b.patient_id)
      [] OTHER -> (IF a.rank = 0 THEN 999 ELSE a.rank)
                  - (IF b.rank = 0 THEN 999 ELSE b.rank)

\* stable insertion of x into the sorted sequence s
RECURSIVE InsertSorted(_, _, _)
InsertSorted(sortBy, s, x) ==
    IF s = <<>> THEN <<x>>
    ELSE IF Compare(sortBy, s[Len(s)], x) <= 0 THEN Append(s, x)
    ELSE Append(InsertSorted(sortBy, SubSeq(s, 1, Len(s) - 1), x), s[Len(s)])

RECURSIVE SortFrom(_, _, _)
SortFrom(sortBy, acc, rest) ==
    IF rest = <<>> THEN acc
    ELSE SortFrom(sortBy, InsertSorted(sortBy, acc, Head(rest)), Tail(rest))

sortResults(results, sortBy) == SortFrom(sortBy, <<>>, results)

\* ----------------------------------------------------------------- state
VARIABLES
    variant,            \* which revision of App is running: 1 or 2
    selectedCondition, results, error, loading, parsedCache,
    selectedTrial, patients, showMatchResults,
    searchReq,          \* the handleSearch call suspended on its request
    nSearch,            \* searches started so far
    batches,            \* fetchParsedCriteria calls, one per search
    loads,              \* fetchPatients calls, one per search
    issued,             \* criteria requests sent so far, per identifier
    ms4,                \* MS4TrialMatchResults: mounted flag and its state
    matchReqs,          \* match requests awaiting their reply
    heldFor,            \* the conditions the stored results and patients were obtained for
    box,                \* the free-text search component and its requests
    calc,               \* one call of a display function: arguments, result
    mon                 \* the health monitor: state, timers, polls in flight

vars == << variant, selectedCondition, results, error, loading, parsedCache,
           selectedTrial, patients, showMatchResults, searchReq, nSearch,
           batches, loads, issued, ms4, matchReqs, heldFor, box, calc, mon >>

\* the state of the condition page and its match display
pageVars == << variant, selectedCondition, results, error, loading,
               parsedCache, selectedTrial, patients, showMatchResults,
               searchReq, nSearch, batches, loads, issued, ms4, matchReqs,
               heldFor >>

appVars == << variant, selectedCondition, results, error, loading, parsedCache,
              selectedTrial, patients, showMatchResults, searchReq, nSearch,
              batches, loads, issued, heldFor, box, calc, mon >>

\* what the free-text search, a display function and the monitor leave alone
notBox == << pageVars, calc, mon >>
notCalc == << pageVars, box, mon >>
notMon == << pageVars, box, calc >>

Slots == 1..MaxSearches

NullResults == <<>>     \* results === null (a stored reply has >= 1 trial)

\* res: the outcome of the request the handler last resumed from
IdleSearch == [pending |-> FALSE, term |-> NoId, parsedCache |-> EmptyCache,
               res |-> NoId]
IdleBatch == [pc |-> "idle", trials |-> <<>>, i |-> 0, cache |-> EmptyCache]
DoneBatch == [pc |-> "done", trials |-> <<>>, i |-> 0, cache |-> EmptyCache]
IdleLoad == [pc |-> "idle", cond |-> NoId, ids |-> <<>>, res |-> <<>>]
DoneLoad == [pc |-> "done", cond |-> NoId, ids |-> <<>>, res |-> <<>>]
\* fetchPatients returned through its else branch or its catch
FailedLoad == [pc |-> "failed", cond |-> NoId, ids |-> <<>>, res |-> <<>>]

\* state of a freshly mounted MS4TrialMatchResults
\* the null of useState(null): the empty sequence, which no patient_id equals
NoPatient == <<>>

\* res: how the last reply this instance consumed ended: "failed",
\* "empty" (no ranked result) or "ranked"
FreshMS4 ==
    [mounted |-> TRUE, trialId |-> NoId, matchResults |-> <<>>,
     error |-> "", loading |-> FALSE, expandedPatient |-> NoPatient,
     sortBy |-> "score", res |-> "none"]
NoMS4 == [FreshMS4 EXCEPT !.mounted = FALSE]

NoMatchReqs == [t \in TrialIds |-> [live |-> 0, dead |-> 0]]

\* the search terms typed into the text input
Terms == {"", "diabetes", "lung cancer"}

\* the two free-text search components: the App of part_002 and SearchBox.jsx
BoxKinds == {"App", "SearchBox"}

\* search: handleSearch calls awaiting the search reply; display: calls
\* awaiting the reply of the display request; calls: handleSearch calls so far
FreshBox(kind) ==
    [kind |-> kind, term |-> "", loading |-> FALSE, error |-> "",
     searchStatus |-> "null", results |-> "null",
     search |-> 0, display |-> 0, calls |-> 0]
NoBox == FreshBox("none")

\* no display function has been called
NoCalc ==
    [fn |-> "none", done |-> FALSE, p |-> 0, class |-> "", label |-> "",
     x |-> <<>>, sortBy |-> "", arg |-> <<>>, out |-> <<>>, again |-> <<>>]

\* the periods of the monitors' setInterval calls, in milliseconds
SinglePeriod == 30000
HealthPeriod == 10000
InitPeriod == 2000

\* the monitors: part_005 (MS3, one timer, Refresh button), part_007 (MS2,
\* one timer, Refresh button, no response.ok test) and part_006 (MS3, a
\* liveness timer and an initialization-progress timer)
MonKinds == {"part_005", "part_007", "part_006"}

\* MS3HealthStatus.jsx, first component: it polls the initialization status
\* only; initStatus holds isInitialized ("null", "true" or "false")
InitMonKind == "MS3HealthStatus"

\* health: the status of the stored reply, "null" before the first one.
\* polls, inits: requests of the mounted instance awaiting their reply;
\* the replies for an unmounted instance reach no state and are left out.
\* via: what called checkHealth last.  now: the time, in milliseconds.
\* last: how the liveness poll that completed last ended: "alive", "other"
\* (a reply with another status) or "failed".  lastInit: how the
\* initialization-progress poll that completed last ended: "ok" or "failed".
FreshMon(kind, now, mounts) ==
    [kind |-> kind, mounted |-> TRUE, health |-> "null", loading |-> TRUE,
     error |-> "null", initStatus |-> "null",
     healthTimer |-> FALSE, nextHealth |-> 0,
     initTimer |-> FALSE, nextInit |-> 0,
     polls |-> 0, inits |-> 0, via |-> "none", last |-> "none", lastInit |-> "none",
     now |-> now, mounts |-> mounts]

\* no health monitor is mounted
NoMon == [FreshMon("none", 0, 0) EXCEPT !.mounted = FALSE]

\* neither results nor patients have been stored
NoneHeld == [results |-> NoId, patients |-> NoId]

\* the condition page before the first search
InitPage ==
    /\ variant \in {1, 2}
    /\ selectedCondition = "diabetes"
    /\ results = NullResults
    /\ error = "null"
    /\ loading = FALSE
    /\ parsedCache = EmptyCache
    /\ selectedTrial = NullTrial
    /\ patients = <<>>
    /\ showMatchResults = FALSE
    /\ searchReq = IdleSearch
    /\ nSearch = 0
    /\ batches = [k \in Slots |-> IdleBatch]
    /\ loads = [k \in Slots |-> IdleLoad]
    /\ issued = [t \in TrialIds |-> 0]
    /\ ms4 = NoMS4
    /\ matchReqs = NoMatchReqs
    /\ heldFor = NoneHeld

Init ==
    /\ InitPage
    /\ box = NoBox
    /\ calc = NoCalc
    /\ mon = NoMon


\* ------------------------------------ MS4TrialMatchResults under App
\* the condition under which App renders MS4TrialMatchResults
Shown(v, selT, show, pats) ==
    /\ show
    /\ selT # NullTrial
    /\ (v = 1 => Len(pats) > 0)

PendingMatches ==
    LET RECURSIVE Sum(_)
        Sum(S) == IF S = {} THEN 0
                  ELSE LET t == CHOOSE x \in S : TRUE
                       IN matchReqs[t].live + matchReqs[t].dead + Sum(S \ {t})
    IN Sum(TrialIds)

\* fetchMatchResults up to its await: the request for trialId is sent
SendMatch(reqs, tid) ==
    [reqs EXCEPT ![tid] = [@ EXCEPT !.live = @ + 1]]

\* replies for an unmounted instance no longer reach any state
Orphan(reqs) ==
    [t \in TrialIds |-> [live |-> 0, dead |-> reqs[t].dead + reqs[t].live]]

\* the render that follows a change of selectedTrial, showMatchResults or
\* patients: mount / update / unmount of MS4TrialMatchResults and its
\* useEffect on [trialId]
RenderMS4(selT, show, pats) ==
    LET will == Shown(variant, selT, show, pats)
        tid == MatchTrialId(selT)
    IN  IF will /\ ~ms4.mounted
        THEN /\ ms4' = [FreshMS4 EXCEPT !.trialId = tid]
             /\ IF tid # NoId
                THEN /\ PendingMatches < MaxMatchReqs
                     /\ matchReqs' = SendMatch(matchReqs, tid)
                ELSE UNCHANGED matchReqs
        ELSE IF will /\ ms4.mounted
        THEN /\ ms4' = [ms4 EXCEPT !.trialId = tid]
             /\ IF tid # ms4.trialId /\ tid # NoId
                THEN /\ PendingMatches < MaxMatchReqs
                     /\ matchReqs' = SendMatch(matchReqs, tid)
                ELSE UNCHANGED matchReqs
        ELSE IF ms4.mounted
        THEN /\ ms4' = NoMS4
             /\ matchReqs' = Orphan(matchReqs)
        ELSE UNCHANGED << ms4, matchReqs >>

\* ------------------------------------------------------ criteria fetcher
\* a loop that does not skip the trials without identifier
NextFetch_NoSkip(v, trials, from, cache) ==
    LET C == { j \in from..Len(trials) :
                 \/ CriteriaKey(v, trials[j]) = NoId
                 \/ ~Truthy(cache[CriteriaKey(v, trials[j])]) }
    IN  IF C = {} THEN 0 ELSE CHOOSE j \in C : \A m \in C : j <= m

\* index of the next trial of the loop that is neither skipped for a
\* missing identifier nor for a truthy cache entry; 0 when the loop ends
NextFetch(v, trials, from, cache) ==
    LET C == { j \in from..Len(trials) :
                 /\ CriteriaKey(v, trials[j]) # NoId
                 /\ ~Truthy(cache[CriteriaKey(v, trials[j])]) }
    IN  IF C = {} THEN 0 ELSE CHOOSE j \in C : \A m \in C : j <= m

\* the local cache after the reply for key
CacheAfter(v, cache, key, outcome) ==
    IF outcome = "ok" THEN [cache EXCEPT ![key] = Doc]
    ELSE IF v = 1 THEN cache
    ELSE [cache EXCEPT ![key] = NullEntry]

\* fetchParsedCriteria(trials) up to its first await (or to its end)
StartBatch(k, trials, snapshot) ==
    LET j == NextFetch(variant, trials, 1, snapshot)
    IN  IF j = 0
        THEN /\ batches' = [batches EXCEPT ![k] = DoneBatch]
             /\ parsedCache' = snapshot
             /\ UNCHANGED issued
        ELSE /\ batches' = [batches EXCEPT ![k] =
                   [pc |-> "await", trials |-> trials, i |-> j, cache |-> snapshot]]
             /\ issued' = [issued EXCEPT ![CriteriaKey(variant, trials[j])] = @ + 1]
             /\ UNCHANGED parsedCache

\* the reply of the criteria request batch k is waiting for
CriteriaReply(k, outcome) ==
    /\ batches[k].pc = "await"
    /\ LET b == batches[k]
           key == CriteriaKey(variant, b.trials[b.i])
           c2 == CacheAfter(variant, b.cache, key, outcome)
           j == NextFetch(variant, b.trials, b.i + 1, c2)
       IN  IF j = 0
           THEN /\ batches' = [batches EXCEPT ![k] = DoneBatch]
                /\ parsedCache' = c2
                /\ UNCHANGED issued
           ELSE /\ batches' = [batches EXCEPT ![k] = [b EXCEPT !.i = j, !.cache = c2]]
                /\ issued' = [issued EXCEPT ![CriteriaKey(variant, b.trials[j])] = @ + 1]
                /\ UNCHANGED parsedCache
    /\ UNCHANGED << heldFor, box, calc, mon, variant, selectedCondition, results, error, loading,
                    selectedTrial, patients, showMatchResults, searchReq,
                    nSearch, loads, ms4, matchReqs >>

\* -------------------------------------------------------- patient loader
\* a search that does not call fetchPatients
StartLoad_NotCalled(k, condition) == UNCHANGED loads

\* fetchPatients(condition) up to its first await
StartLoad(k, condition) ==
    loads' = [loads EXCEPT ![k] =
                [pc |-> "list", cond |-> condition, ids |-> <<>>, res |-> <<>>]]

\* a loader that drops the patients whose detail request failed
FullPatients_DropFailed(res) ==
    LET IsFull(e) == e.kind = "full" IN SelectSeq(res, IsFull)

\* what Promise.all resolves to once every detail promise has settled
FullPatients(res) == res

\* a loader that leaves the shown list alone when the list request fails
NoPatients_KeepShown(shown) == shown

\* setPatients([]) of the else branch and of the catch
NoPatients(shown) == <<>>

\* the reply of the identifier-list request
PatientListReply(k, outcome, ids) ==
    /\ loads[k].pc = "list"
    /\ IF outcome = "ok" /\ ids # <<>>
       THEN /\ loads' = [loads EXCEPT ![k] =
                  [@ EXCEPT !.pc = "details", !.ids = ids,
                            !.res = [i \in 1..Len(ids) |-> Pending]]]
            /\ UNCHANGED << patients, ms4, matchReqs, heldFor >>
       ELSE IF outcome = "ok"
       THEN /\ loads' = [loads EXCEPT ![k] = [DoneLoad EXCEPT !.cond = loads[k].cond]]
            /\ patients' = FullPatients(<<>>)
            /\ heldFor' = [heldFor EXCEPT !.patients = loads[k].cond]
            /\ RenderMS4(selectedTrial, showMatchResults, FullPatients(<<>>))
       ELSE /\ loads' = [loads EXCEPT ![k] = [FailedLoad EXCEPT !.cond = loads[k].cond]]
            /\ patients' = NoPatients(patients)
            /\ heldFor' = [heldFor EXCEPT !.patients = loads[k].cond]
            /\ RenderMS4(selectedTrial, showMatchResults, NoPatients(patients))
    /\ UNCHANGED << box, calc, mon, variant, selectedCondition, results, error, loading,
                    parsedCache, selectedTrial, showMatchResults, searchReq,
                    nSearch, batches, issued >>

\* a loader that collects the detail values in their order of arrival
Settle_ArrivalOrder(res, pos, val) ==
    LET first == CHOOSE i \in 1..Len(res) :
                     /\ res[i] = Pending
                     /\ \A m \in 1..(i - 1) : res[m] # Pending
    IN  [res EXCEPT ![first] = val]

\* where the value of the detail promise of position pos is put
Settle(res, pos, val) == [res EXCEPT ![pos] = val]

\* the reply of one patient-phenotype request
PatientDetailReply(k, pos, outcome) ==
    /\ loads[k].pc = "details"
    /\ pos \in 1..Len(loads[k].ids)
    /\ loads[k].res[pos] = Pending
    /\ LET l == loads[k]
           r2 == Settle(l.res, pos, DetailValue(l.ids[pos], outcome))
       IN  IF \E i \in 1..Len(r2) : r2[i] = Pending
           THEN /\ loads' = [loads EXCEPT ![k] = [l EXCEPT !.res = r2]]
                /\ UNCHANGED << patients, ms4, matchReqs, heldFor >>
           ELSE /\ loads' = [loads EXCEPT ![k] = [DoneLoad EXCEPT !.cond = l.cond]]
                /\ patients' = FullPatients(r2)
                /\ heldFor' = [heldFor EXCEPT !.patients = l.cond]
                /\ RenderMS4(selectedTrial, showMatchResults, FullPatients(r2))
    /\ UNCHANGED << box, calc, mon, variant, selectedCondition, results, error, loading,
                    parsedCache, selectedTrial, showMatchResults, searchReq,
                    nSearch, batches, issued >>

\* ----------------------------------------------------- search controller
SetSelectedCondition(c) ==
    /\ c \in CONDITIONS
    /\ c # selectedCondition
    /\ selectedCondition' = c
    /\ UNCHANGED << heldFor, box, calc, mon, variant, results, error, loading, parsedCache,
                    selectedTrial, patients, showMatchResults, searchReq,
                    nSearch, batches, loads, issued, ms4, matchReqs >>

\* a handleSearch that leaves the selection and the match display in place
HandleSearch_KeepsSelection ==
    /\ ~loading
    /\ nSearch < MaxSearches
    /\ error' = "null"
    /\ results' = NullResults
    /\ loading' = TRUE
    /\ searchReq' = [pending |-> TRUE, term |-> selectedCondition,
                     parsedCache |-> parsedCache, res |-> NoId]
    /\ nSearch' = nSearch + 1
    /\ heldFor' = [heldFor EXCEPT !.results = NoId]
    /\ UNCHANGED << box, calc, mon, variant, selectedCondition, parsedCache, patients,
                    batches, loads, issued, selectedTrial, showMatchResults,
                    ms4, matchReqs >>

\* click on the search button: handleSearch up to its await
HandleSearch ==
    /\ ~loading
    /\ nSearch < MaxSearches
    /\ error' = "null"
    /\ results' = NullResults
    /\ loading' = TRUE
    /\ selectedTrial' = NullTrial
    /\ showMatchResults' = FALSE
    /\ searchReq' = [pending |-> TRUE, term |-> selectedCondition,
                     parsedCache |-> parsedCache, res |-> NoId]
    /\ nSearch' = nSearch + 1
    /\ heldFor' = [heldFor EXCEPT !.results = NoId]
    /\ RenderMS4(NullTrial, FALSE, patients)
    /\ UNCHANGED << box, calc, mon, variant, selectedCondition, parsedCache, patients,
                    batches, loads, issued >>

\* a handleSearch that treats an empty trial list as a failed request
SearchBranch_EmptyIsFailure(v, outcome) ==
    IF outcome \in {"neterr", "httperr_text", "httperr_json", "empty"}
    THEN "catch"
    ELSE IF outcome = "trials" THEN "trials"
    ELSE IF v = 1 /\ outcome = "message" THEN "message"
    ELSE "none"

\* the branch handleSearch takes on the reply
SearchBranch(v, outcome) ==
    IF v = 1
    THEN CASE outcome \in {"neterr", "httperr_text"} -> "catch"
           [] outcome = "trials" -> "trials"
           [] outcome = "message" -> "message"
           [] OTHER -> "none"
    ELSE CASE outcome \in {"neterr", "httperr_text", "httperr_json"} -> "catch"
           [] outcome = "trials" -> "trials"
           [] OTHER -> "none"

\* the reply of the search request: the rest of handleSearch
SearchReply(outcome, trials) ==
    /\ searchReq.pending
    /\ outcome \in SearchOutcomes
    /\ trials \in TrialLists \cup SkipLists
    /\ LET br == SearchBranch(variant, outcome)
           k == nSearch
       IN  /\ results' = IF br = "trials" THEN trials ELSE NullResults
           /\ error' = CASE br = "trials" -> (IF variant = 1 THEN "" ELSE "null")
                         [] br = "message" -> "message"
                         [] br = "none" -> "No trials found"
                         [] OTHER -> GenericError
           /\ IF br = "trials"
              THEN /\ StartBatch(k, trials, searchReq.parsedCache)
                   /\ IF variant = 1
                      THEN StartLoad(k, searchReq.term)
                      ELSE UNCHANGED loads
              ELSE UNCHANGED << batches, parsedCache, issued, loads >>
    /\ loading' = FALSE
    /\ heldFor' = [heldFor EXCEPT !.results =
                      IF SearchBranch(variant, outcome) = "trials"
                      THEN searchReq.term ELSE NoId]
    /\ searchReq' = [IdleSearch EXCEPT !.res = outcome]
    /\ UNCHANGED << box, calc, mon, variant, selectedCondition, selectedTrial, patients,
                    showMatchResults, nSearch, ms4, matchReqs >>

\* a selection that is offered for trials that are not in the stored results
HandleSelectTrial_NotListed(trial) ==
    /\ selectedTrial' = trial
    /\ showMatchResults' = TRUE
    /\ RenderMS4(trial, TRUE, patients)
    /\ UNCHANGED << heldFor, box, calc, mon, variant, selectedCondition, results, error, loading,
                    parsedCache, patients, searchReq, nSearch, batches,
                    loads, issued >>

\* click on "View Patient Matches" of a listed trial
HandleSelectTrial(trial) ==
    /\ \E i \in 1..Len(results) : results[i] = trial
    /\ selectedTrial' = trial
    /\ showMatchResults' = TRUE
    /\ RenderMS4(trial, TRUE, patients)
    /\ UNCHANGED << heldFor, box, calc, mon, variant, selectedCondition, results, error, loading,
                    parsedCache, patients, searchReq, nSearch, batches,
                    loads, issued >>

\* ----------------------------------------------------- match orchestrator
\* the reply of a match request: the rest of fetchMatchResults
MatchReply(t, live, outcome, ranked) ==
    /\ t \in TrialIds
    /\ IF live THEN matchReqs[t].live > 0 ELSE matchReqs[t].dead > 0
    /\ outcome \in FetchOutcomes
    /\ ranked \in MatchReplies(t)
    /\ matchReqs' = [matchReqs EXCEPT ![t] =
           IF live THEN [@ EXCEPT !.live = @ - 1] ELSE [@ EXCEPT !.dead = @ - 1]]
    /\ IF live
       THEN IF outcome = "ok"
            THEN ms4' = [ms4 EXCEPT !.matchResults = sortResults(ranked, ms4.sortBy),
                                    !.loading = FALSE,
                                    !.res = IF ranked = <<>> THEN "empty"
                                            ELSE "ranked"]
            ELSE ms4' = [ms4 EXCEPT !.error = "Failed to load match results",
                                    !.loading = FALSE,
                                    !.res = "failed"]
       ELSE UNCHANGED ms4
    /\ UNCHANGED appVars

\* the render reaches the ranked list: not loading, no error, some result
ShowsResults ==
    /\ ms4.mounted
    /\ ~ms4.loading
    /\ ms4.error = ""
    /\ ms4.matchResults # <<>>

\* click on a patient of the ranked list: togglePatientExpanded(patientId)
TogglePatientExpanded(pid) ==
    /\ ShowsResults
    /\ \E i \in 1..Len(ms4.matchResults) : ms4.matchResults[i].patient_id = pid
    /\ ms4' = [ms4 EXCEPT !.expandedPatient =
                  IF ms4.expandedPatient = pid THEN NoPatient ELSE pid]
    /\ UNCHANGED matchReqs
    /\ UNCHANGED appVars

\* ---------------------------------------------------- free-text search
\* the page renders one of the two components
MountBox(kind) ==
    /\ box = NoBox
    /\ kind \in BoxKinds
    /\ box' = FreshBox(kind)
    /\ UNCHANGED notBox

\* the text input is disabled while loading in SearchBox.jsx only
InputEnabled == box.kind = "App" \/ ~box.loading

\* onChange of the text input
SetTerm(t) ==
    /\ box.kind \in BoxKinds
    /\ InputEnabled
    /\ t \in Terms
    /\ t # box.term
    /\ box' = [box EXCEPT !.term = t]
    /\ UNCHANGED notBox

\* /^[a-zA-Z0-9\\s]+$/.test(term) of part_002, !!term.trim() of SearchBox.jsx
TermAccepted(kind, term) ==
    IF kind = "App" THEN term = "diabetes" ELSE term # ""

\* handleSearch up to its return or its first await
BoxHandleSearch ==
    IF ~TermAccepted(box.kind, box.term)
    THEN box' = IF box.kind = "App"
                THEN [box EXCEPT !.error = "Please enter only letters and numbers.",
                                 !.results = "null"]
                ELSE [box EXCEPT !.error = "Please enter a search term"]
    ELSE /\ box.calls < MaxBoxSearches
         /\ box' = IF box.kind = "App"
                   THEN [box EXCEPT !.error = "", !.results = "null",
                                    !.loading = TRUE,
                                    !.search = @ + 1, !.calls = @ + 1]
                   ELSE [box EXCEPT !.error = "", !.searchStatus = "null",
                                    !.loading = TRUE,
                                    !.search = @ + 1, !.calls = @ + 1]

\* click on the search button, disabled while loading
BoxClick ==
    /\ box.kind \in BoxKinds
    /\ ~box.loading
    /\ BoxHandleSearch
    /\ UNCHANGED notBox

\* the condition under which the Enter key calls handleSearch
EnterSearches == box.kind = "App" \/ ~box.loading

\* Enter in the text input
BoxEnter ==
    /\ box.kind \in BoxKinds
    /\ InputEnabled
    /\ EnterSearches
    /\ BoxHandleSearch
    /\ UNCHANGED notBox

\* the reply of a search request: handleSearch resumes. A "message" reply is
\* one whose message includes "No results"; the signs that precede the error
\* texts of part_002 are left out.
BoxSearchReply(outcome) ==
    /\ box.search > 0
    /\ outcome \in SearchOutcomes
    /\ box' =
         IF box.kind = "App"
         THEN IF outcome \in {"neterr", "httperr_text"}
              THEN [box EXCEPT !.search = @ - 1, !.loading = FALSE,
                               !.error = GenericError]
              ELSE IF outcome = "message"
              THEN [box EXCEPT !.search = @ - 1, !.loading = FALSE,
                               !.error = "message", !.results = "null"]
              ELSE [box EXCEPT !.search = @ - 1, !.display = @ + 1]
         ELSE IF outcome \in {"neterr", "httperr_text", "httperr_json"}
              THEN [box EXCEPT !.search = @ - 1, !.loading = FALSE,
                               !.error = "Search failed. Please try again.",
                               !.searchStatus = "error"]
              ELSE [box EXCEPT !.search = @ - 1, !.loading = FALSE,
                               !.searchStatus = IF outcome = "trials"
                                                THEN "success"
                                                ELSE "no-results",
                               !.results = outcome,
                               !.term = ""]
    /\ UNCHANGED notBox

\* the reply of the display request of part_002
BoxDisplayReply(outcome) ==
    /\ box.display > 0
    /\ outcome \in {"ok", "neterr"}
    /\ box' = IF outcome = "ok"
              THEN [box EXCEPT !.display = @ - 1, !.loading = FALSE,
                               !.results = "display"]
              ELSE [box EXCEPT !.display = @ - 1, !.loading = FALSE,
                               !.error = GenericError]
    /\ UNCHANGED notBox

\* -------------------------------------------------------- health monitor
\* the status value the monitor shows as healthy
Healthy(kind) == IF kind = "part_007" THEN "healthy" ELSE "alive"

HealthOutcomes == {"healthy", "degraded", "httperr_json", "httperr_text", "neterr"}

\* the status the monitor displays: getStatusIcon, getStatusColor and the
\* text `loading ? "Checking..." : error ? error : Status: health?.status || "unknown"`
Status ==
    IF mon.loading THEN "checking"
    ELSE IF mon.error # "null" THEN "unreachable"
    ELSE IF mon.health = "null" THEN "unknown"
    ELSE IF mon.health = Healthy(mon.kind) THEN "reachable-healthy"
    ELSE "reachable-degraded"

HealthPeriodOf(kind) == IF kind = "part_006" THEN HealthPeriod ELSE SinglePeriod

\* checkHealth up to its await, called by caller
CheckHealth(m, caller) ==
    [m EXCEPT !.loading = IF m.kind = "part_006" THEN @ ELSE TRUE,
              !.error = "null",
              !.polls = @ + 1,
              !.via = caller]

\* checkInitStatus up to its await
CheckInitStatus(m) == [m EXCEPT !.inits = @ + 1]

\* the component mounts: initial state and the effect with its two calls
\* and its setInterval calls
MountMon(kind) ==
    /\ ~mon.mounted
    /\ kind \in MonKinds
    /\ mon.mounts < MaxMounts
    /\ LET fresh == FreshMon(kind, mon.now, mon.mounts + 1)
           polled == CheckHealth(fresh, "mount")
       IN  mon' = IF kind = "part_006"
                  THEN [CheckInitStatus(polled) EXCEPT
                            !.healthTimer = TRUE,
                            !.nextHealth = mon.now + HealthPeriod,
                            !.initTimer = TRUE,
                            !.nextInit = mon.now + InitPeriod]
                  ELSE [polled EXCEPT
                            !.healthTimer = TRUE,
                            !.nextHealth = mon.now + SinglePeriod]
    /\ UNCHANGED notMon

\* a cleanup that clears the liveness timer only
UnmountMon_LeavesInitTimer ==
    /\ mon.mounted
    /\ mon' = [mon EXCEPT !.mounted = FALSE, !.healthTimer = FALSE,
                          !.polls = 0, !.inits = 0]
    /\ UNCHANGED notMon

\* the component unmounts: the cleanup of the effect
UnmountMon ==
    /\ mon.mounted
    /\ mon' = [mon EXCEPT !.mounted = FALSE,
                          !.healthTimer = FALSE, !.initTimer = FALSE,
                          !.polls = 0, !.inits = 0]
    /\ UNCHANGED notMon

\* the liveness timer fires
HealthTick ==
    /\ mon.healthTimer
    /\ mon.nextHealth <= mon.now
    /\ mon.polls < MaxPolls
    /\ mon' = [CheckHealth(mon, "timer") EXCEPT
                  !.nextHealth = @ + HealthPeriodOf(mon.kind)]
    /\ UNCHANGED notMon

\* the initialization-progress timer fires
InitTick ==
    /\ mon.kind \in MonKinds
    /\ mon.initTimer
    /\ mon.nextInit <= mon.now
    /\ mon.inits < MaxPolls
    /\ mon' = [CheckInitStatus(mon) EXCEPT !.nextInit = @ + InitPeriod]
    /\ UNCHANGED notMon

\* a Refresh that restarts the interval
Refresh_RestartsTimer ==
    /\ mon.mounted
    /\ mon.kind \in {"part_005", "part_007"}
    /\ ~mon.loading
    /\ mon.polls < MaxPolls
    /\ mon' = [CheckHealth(mon, "refresh") EXCEPT
                  !.nextHealth = mon.now + HealthPeriodOf(mon.kind)]
    /\ UNCHANGED notMon

\* click on Refresh, disabled while loading
Refresh ==
    /\ mon.mounted
    /\ mon.kind \in {"part_005", "part_007"}
    /\ ~mon.loading
    /\ mon.polls < MaxPolls
    /\ mon' = CheckHealth(mon, "refresh")
    /\ UNCHANGED notMon

\* the branch checkHealth takes on the reply
HealthBranch(kind, outcome) ==
    CASE outcome \in {"neterr", "httperr_text"} -> "catch"
      [] outcome = "httperr_json" -> (IF kind = "part_007" THEN "body" ELSE "catch")
      [] OTHER -> "data"

\* the reply of a liveness request: the rest of checkHealth
HealthReply(outcome) ==
    /\ mon.polls > 0
    /\ outcome \in HealthOutcomes
    /\ LET br == HealthBranch(mon.kind, outcome)
       IN  mon' = [mon EXCEPT
                     !.polls = @ - 1,
                     !.loading = FALSE,
                     !.last = CASE outcome = "healthy" -> "alive"
                                [] outcome = "degraded" -> "other"
                                [] OTHER -> "failed",
                     !.health = CASE br = "catch" -> @
                                  [] br = "body" -> "error"
                                  [] outcome = "healthy" -> Healthy(mon.kind)
                                  [] OTHER -> "degraded",
                     !.error = IF br = "catch" THEN "Unable to connect" ELSE @]
    /\ UNCHANGED notMon

\* a checkInitStatus whose catch reports the failure as checkHealth does
InitReply_FailureShown(outcome) ==
    /\ mon.kind \in MonKinds
    /\ mon.inits > 0
    /\ outcome \in {"ok", "neterr"}
    /\ mon' = [mon EXCEPT !.inits = @ - 1,
                          !.lastInit = IF outcome = "ok" THEN "ok" ELSE "failed",
                          !.initStatus = IF outcome = "ok" THEN "data" ELSE @,
                          !.error = IF outcome = "ok" THEN @ ELSE "Unable to connect"]
    /\ UNCHANGED notMon

\* the reply of an initialization-status request: the rest of checkInitStatus
InitReply(outcome) ==
    /\ mon.kind \in MonKinds
    /\ mon.inits > 0
    /\ outcome \in {"ok", "neterr"}
    /\ mon' = [mon EXCEPT !.inits = @ - 1,
                          !.lastInit = IF outcome = "ok" THEN "ok" ELSE "failed",
                          !.initStatus = IF outcome = "ok" THEN "data" ELSE @]
    /\ UNCHANGED notMon

\* time passes by one period of the faster timer; a timer that is due fires
\* first
Advance ==
    /\ mon.kind # InitMonKind
    /\ mon.now < MaxTime
    /\ mon.healthTimer => mon.nextHealth > mon.now
    /\ mon.initTimer => mon.nextInit > mon.now
    /\ mon' = [mon EXCEPT !.now = @ + InitPeriod]
    /\ UNCHANGED notMon

\* ------------------------------------- initialization-status monitor
\* the period of its setInterval call, in milliseconds
InitMonPeriod == 5000

InitMonOutcomes == {"initialized", "not_initialized", "missing", "httperr", "neterr"}

\* its checkInitStatus up to its await
CheckInitStatusOnly(m) == [m EXCEPT !.error = "null", !.inits = @ + 1]

\* the component mounts: the effect calls checkInitStatus and sets the timer
MountInitMon ==
    /\ ~mon.mounted
    /\ mon.mounts < MaxMounts
    /\ mon' = [CheckInitStatusOnly(FreshMon(InitMonKind, mon.now, mon.mounts + 1))
                 EXCEPT !.initTimer = TRUE,
                        !.nextInit = mon.now + InitMonPeriod]
    /\ UNCHANGED notMon

\* the timer fires: checkInitStatus
InitMonTick ==
    /\ mon.kind = InitMonKind
    /\ mon.initTimer
    /\ mon.nextInit <= mon.now
    /\ mon.inits < MaxPolls
    /\ mon' = [CheckInitStatusOnly(mon) EXCEPT !.nextInit = @ + InitMonPeriod]
    /\ UNCHANGED notMon

\* the reply of its request: the rest of checkInitStatus, with
\* data.is_initialized || false
InitMonReply(outcome) ==
    /\ mon.kind = InitMonKind
    /\ mon.inits > 0
    /\ outcome \in InitMonOutcomes
    /\ mon' = [mon EXCEPT
                 !.inits = @ - 1,
                 !.loading = FALSE,
                 !.initStatus = CASE outcome = "initialized" -> "true"
                                  [] outcome \in {"not_initialized", "missing"} -> "false"
                                  [] OTHER -> @,
                 !.error = IF outcome \in {"httperr", "neterr"}
                           THEN "Unable to connect to MS3" ELSE @]
    /\ UNCHANGED notMon

\* time passes by one period of the timer; a timer that is due fires first
AdvanceInitMon ==
    /\ mon.kind = InitMonKind
    /\ mon.now < MaxTime
    /\ mon.initTimer => mon.nextInit > mon.now
    /\ mon' = [mon EXCEPT !.now = @ + InitMonPeriod]
    /\ UNCHANGED notMon

\* ---------------------------------------------------- display functions
\* match_percentage values carry one decimal and are held in tenths
Tenths == 0..MaxTenths

\* (result.match_percentage || 0).toFixed(0): the nearest integer, halves up;
\* the comparisons below turn the string back into that integer
ToFixed0(t) == (t + 5) \div 10

getMatchQualityClass(percentage) ==
    IF percentage >= 80 THEN "match-excellent"
    ELSE IF percentage >= 60 THEN "match-good"
    ELSE IF percentage >= 40 THEN "match-fair"
    ELSE "match-poor"

getMatchQualityLabel(percentage) ==
    IF percentage >= 80 THEN "Excellent Match"
    ELSE IF percentage >= 60 THEN "Good Match"
    ELSE IF percentage >= 40 THEN "Fair Match"
    ELSE "Poor Match"

\* a result of match_percentage t tenths is about to be rendered
QualityInputs ==
    { [NoCalc EXCEPT !.fn = "quality", !.p = t] : t \in Tenths }

\* the render of one result of the ranked list: percentage, class and label
RenderResult ==
    /\ calc.fn = "quality"
    /\ ~calc.done
    /\ LET percentage == ToFixed0(calc.p)
       IN  calc' = [calc EXCEPT !.done = TRUE,
                                !.class = getMatchQualityClass(percentage),
                                !.label = getMatchQualityLabel(percentage)]
    /\ UNCHANGED notCalc

\* results the match service may rank: a rank of 0, a percentage of 0 and an
\* empty patient_id are the falsy values the comparators replace
ResultPool ==
    { MatchResult("NCT001", <<1>>, 1, 90),
      MatchResult("NCT001", <<2>>, 2, 55),
      MatchResult("NCT001", <<1, 0>>, 2, 90),
      MatchResult("NCT001", <<>>, 0, 0),
      MatchResult("NCT001", <<2>>, 1, 55) }

SortKeys == {"score", "rank", "percentage", "name"}

ResultLists == UNION { [1..n -> ResultPool] : n \in 0..MaxResults }

\* sortResults is about to be called on the list x under the key sortBy
SortInputs ==
    { [NoCalc EXCEPT !.fn = "sort", !.x = x, !.arg = x, !.sortBy = k] :
        x \in ResultLists, k \in SortKeys }

\* a sortResults that sorts the array it was given
ArgAfterSort_InPlace(list, sortBy) == sortResults(list, sortBy)

\* the array handed to sortResults once it has returned: sorted is a copy
ArgAfterSort(list, sortBy) == list

\* sortResults(x), and sortResults of what it returned
SortCall ==
    /\ calc.fn = "sort"
    /\ ~calc.done
    /\ LET sorted == sortResults(calc.arg, calc.sortBy)
       IN  calc' = [calc EXCEPT !.done = TRUE,
                                !.arg = ArgAfterSort(calc.arg, calc.sortBy),
                                !.out = sorted,
                                !.again = sortResults(sorted, calc.sortBy)]
    /\ UNCHANGED notCalc

\* ------------------------------------------------------- specifications
UserSearch ==
    \/ HandleSearch
    \/ \E o \in SearchOutcomes, tl \in TrialLists : SearchReply(o, tl)

\* searches whose reply carries a record without resolvable identifier
UserSearchSkip ==
    \/ HandleSearch
    \/ \E o \in SearchOutcomes, tl \in SkipLists : SearchReply(o, tl)

UserCondition == \E c \in CONDITIONS : SetSelectedCondition(c)

CriteriaService == \E k \in Slots, o \in FetchOutcomes : CriteriaReply(k, o)

PatientService ==
    \/ \E k \in Slots, o \in FetchOutcomes, ids \in PatientLists :
          PatientListReply(k, o, ids)
    \/ \E k \in Slots, pos \in 1..MaxPatients, o \in DetailOutcomes :
          PatientDetailReply(k, pos, o)

\* the patient service when every phenotype request succeeds
PatientServiceOk ==
    \/ \E k \in Slots, o \in FetchOutcomes, ids \in PatientLists :
          PatientListReply(k, o, ids)
    \/ \E k \in Slots, pos \in 1..MaxPatients : PatientDetailReply(k, pos, "ok")

\* the patient service when a condition has one patient at most
PatientServiceOne ==
    \/ \E k \in Slots, o \in FetchOutcomes, n \in 0..1 :
          PatientListReply(k, o, Asc(n))
    \/ \E k \in Slots : PatientDetailReply(k, 1, "ok")

UserSelect ==
    \E tl \in TrialLists, i \in 1..2 : i <= Len(tl) /\ HandleSelectTrial(tl[i])

MatchService ==
    \E t \in TrialIds, live \in BOOLEAN, o \in FetchOutcomes :
        \E r \in MatchReplies(t) : MatchReply(t, live, o, r)

UserExpand ==
    \E i \in 1..2 :
        /\ i <= Len(ms4.matchResults)
        /\ TogglePatientExpanded(ms4.matchResults[i].patient_id)

UserMon ==
    \/ \E kind \in MonKinds : MountMon(kind)
    \/ UnmountMon
    \/ Refresh

MonTimers ==
    \/ HealthTick
    \/ InitTick
    \/ Advance

MonService ==
    \/ \E o \in HealthOutcomes : HealthReply(o)
    \/ \E o \in {"ok", "neterr"} : InitReply(o)

UserInitMon ==
    \/ MountInitMon
    \/ UnmountMon

InitMonTimers ==
    \/ InitMonTick
    \/ AdvanceInitMon

InitMonService == \E o \in InitMonOutcomes : InitMonReply(o)

UserBox ==
    \/ \E kind \in BoxKinds : MountBox(kind)
    \/ \E t \in Terms : SetTerm(t)
    \/ BoxClick
    \/ BoxEnter

BoxService ==
    \/ \E o \in SearchOutcomes : BoxSearchReply(o)
    \/ \E o \in {"ok", "neterr"} : BoxDisplayReply(o)

\* the whole page
Next ==
    \/ UserSearchSkip
    \/ UserInitMon
    \/ InitMonTimers
    \/ InitMonService
    \/ UserMon
    \/ MonTimers
    \/ MonService
    \/ RenderResult
    \/ SortCall
    \/ UserBox
    \/ BoxService
    \/ UserExpand
    \/ UserCondition
    \/ UserSearch
    \/ CriteriaService
    \/ PatientService
    \/ UserSelect
    \/ MatchService

Spec == Init /\ [][Next]_vars

\* searches and their criteria batches
NextCriteria == UserSearch \/ CriteriaService
SpecCriteria == Init /\ [][NextCriteria]_vars

\* the revision of App that loads patients
InitPatients == Init /\ variant = 1

\* searches and their patient loads
NextPatients == UserSearch \/ PatientService
SpecPatients == InitPatients /\ [][NextPatients]_vars

\* searches for changing conditions and their patient loads
NextSupersede == UserCondition \/ UserSearch \/ PatientService
SpecSupersede == InitPatients /\ [][NextSupersede]_vars

\* searches with their criteria batches and patient loads
NextConcurrent == UserSearch \/ CriteriaService \/ PatientServiceOne
SpecConcurrent == Init /\ [][NextConcurrent]_vars

\* trial selection and matching
NextMatch == UserSearch \/ PatientServiceOk \/ UserSelect \/ MatchService
SpecMatch == Init /\ [][NextMatch]_vars

\* trial selection, matching and the expansion of listed patients
NextExpand == UserSearch \/ PatientServiceOk \/ UserSelect \/ MatchService
                 \/ UserExpand
SpecExpand == Init /\ [][NextExpand]_vars

\* the free-text search components
NextBox == UserBox \/ BoxService
SpecBox == Init /\ [][NextBox]_vars

\* searches with both batch operations and every outcome of their items
NextItems == UserSearch \/ CriteriaService \/ PatientService
SpecItems == Init /\ [][NextItems]_vars

\* the initialization-status monitor alone
NextInitMon == UserInitMon \/ InitMonTimers \/ InitMonService
SpecInitMon == Init /\ [][NextInitMon]_vars

\* searches that return unresolvable records, and their criteria batches
NextSkip == UserSearchSkip \/ CriteriaService
SpecSkip == Init /\ [][NextSkip]_vars

\* the classification of one rendered result
InitQuality ==
    /\ InitPage
    /\ box = NoBox
    /\ mon = NoMon
    /\ calc \in QualityInputs
NextQuality == RenderResult
SpecQuality == InitQuality /\ [][NextQuality]_vars

\* one call of sortResults
InitSort ==
    /\ InitPage
    /\ box = NoBox
    /\ mon = NoMon
    /\ calc \in SortInputs
NextSort == SortCall
SpecSort == InitSort /\ [][NextSort]_vars

\* the health monitors
NextMon == UserMon \/ MonTimers \/ MonService
SpecMon == Init /\ [][NextMon]_vars

TypeOK ==
    /\ variant \in {1, 2}
    /\ selectedCondition \in CONDITIONS
    /\ loading \in BOOLEAN
    /\ nSearch \in 0..MaxSearches

\* ------------------------------------------------------------ properties
Awaiting(k) ==
    IF batches[k].pc = "await"
    THEN CriteriaKey(variant, batches[k].trials[batches[k].i])
    ELSE NoId

InFlightCriteria(t) == Cardinality({k \in Slots : Awaiting(k) = t})

\* the identifiers fetchParsedCriteria resolves in the trial list of batch k
BatchKeys(k) ==
    { CriteriaKey(variant, batches[k].trials[i]) : i \in 1..Len(batches[k].trials) }
        \ {NoId}

BatchCompletes(k) == batches[k].pc = "await" /\ batches'[k].pc = "done"
LoadCompletes(k) == loads[k].pc = "details" /\ loads'[k].pc = "done"
\* handleSearch resumes from its await
SearchReturns == searchReq.pending /\ ~searchReq'.pending
\* handleSearch runs up to its await
SearchStarts == ~searchReq.pending /\ searchReq'.pending
\* the request of the last search did not succeed
SearchFailed == searchReq.res \in {"neterr", "httperr_json", "httperr_text"}

LoadEnded(k) == loads[k].pc \in {"done", "failed"}
LoadEnds(k) == loads[k].pc \in {"list", "details"} /\ LoadEnded(k)'

\* C1: a match reply for a trial that is no longer the selected one never
\* replaces the match results of the mounted component.
C1_StaleMatchDiscarded ==
    [][\A t \in TrialIds :
         (/\ ms4.mounted /\ ms4'.mounted
          /\ ms4.trialId # t
          /\ matchReqs'[t].live = matchReqs[t].live - 1
          /\ matchReqs'[t].dead = matchReqs[t].dead)
         => ms4'.matchResults = ms4.matchResults]_vars

\* C2: once the patient load of a later search for another condition has
\* stored its list, the late end of the load of an earlier search leaves
\* the patient list as it is.
C2_StaleLoadDiscarded ==
    [][\A j \in Slots, k \in Slots :
         (/\ j < k
          /\ LoadEnded(k)
          /\ loads[k].cond # loads[j].cond
          /\ LoadEnds(j))
         => patients' = patients]_vars

\* C3: over all invocations of the criteria fetcher, at most one request is
\* sent for any one trial identifier.
C3_AtMostOneRequest == \A t \in TrialIds : issued[t] <= 1

\* C4: a cache entry that holds a document or a sentinel is never removed
\* or replaced.
C4_CacheMonotonic ==
    [][\A t \in TrialIds :
         parsedCache[t] # Absent => parsedCache'[t] = parsedCache[t]]_vars

\* C5: at most one criteria request is in flight per trial identifier.
C5_OneInFlightPerTrial == \A t \in TrialIds : InFlightCriteria(t) <= 1

\* C6: when a batch ends, every identifier it handled holds in the cache
\* either the parsed document or the failure sentinel, never "no entry".
C6_OutcomeRecorded ==
    [][\A k \in Slots :
         BatchCompletes(k) =>
           \A t \in BatchKeys(k) : parsedCache'[t] \in {Doc, NullEntry}]_vars

\* C7: when a two-trial batch ends, a request has been sent for each of its
\* trials and the cache holds two entries for them, documents or sentinels.
C7_BatchItemsIndependent ==
    [][\A k \in Slots :
         (BatchCompletes(k) /\ Cardinality(BatchKeys(k)) = 2) =>
           /\ \A t \in BatchKeys(k) : issued'[t] >= 1
           /\ Cardinality({t \in BatchKeys(k) : parsedCache'[t] # Absent}) = 2]_vars

\* C8: the patient list a load stores is as long as the identifier list it
\* received, however many detail requests failed.
C8_PatientCountKept ==
    [][\A k \in Slots :
         LoadCompletes(k) => Len(patients') = Len(loads[k].ids)]_vars

\* a stored list of full length in which a detail request had failed
C8_Witness ==
    /\ Len(patients) = MaxPatients
    /\ \E i \in 1..Len(patients) : patients[i].kind = "minimal"

\* C9: every stored patient entry is the full record of a successful detail
\* request or the minimal record of the identifier list.
C9_FailedDetailIsMinimal ==
    \A i \in 1..Len(patients) : patients[i].kind \in {"full", "minimal"}

\* C10: the entry a load stores at position i is the one obtained for the
\* i-th identifier of the list.
C10_OrderKept ==
    [][\A k \in Slots :
         LoadCompletes(k) =>
           \A i \in 1..Len(loads[k].ids) :
               i <= Len(patients') /\ patients'[i].req = loads[k].ids[i]]_vars

\* a stored list whose identifiers are not in ascending order
C10_Witness ==
    /\ Len(patients) >= 2
    /\ patients[1].req > patients[2].req

\* C11: when the identifier-list request fails or returns no identifier, the
\* load ends at once with the empty patient list and without the detail stage.
C11_ListFailureGivesEmpty ==
    [][\A k \in Slots :
         (loads[k].pc = "list" /\ LoadEnded(k)')
         => /\ patients' = <<>>
            /\ loads'[k].ids = <<>>
            /\ loads'[k].res = <<>>]_vars

\* a failed list request has emptied the list an earlier load had stored
C11_Witness ==
    /\ patients = <<>>
    /\ \E j \in Slots, k \in Slots :
          j < k /\ loads[j].pc = "done" /\ loads[k].pc = "failed"

C13_SearchStartClears ==
    [][SearchStarts
       => /\ selectedTrial' = NullTrial
          /\ ~showMatchResults'
          /\ results' = NullResults
          /\ error' = "null"
          /\ loading'
          /\ ~ms4'.mounted]_vars

\* a search was started while the match display of a trial awaited its reply
C13_Witness ==
    /\ searchReq.pending
    /\ selectedTrial = NullTrial
    /\ \E t \in TrialIds : matchReqs[t].dead > 0

C16_FailureIsGenericError ==
    SearchFailed
    => /\ error = GenericError
       /\ results = NullResults
       /\ batches[nSearch].pc = "idle"
       /\ loads[nSearch].pc = "idle"
       /\ ~loading

\* no fetchPatients call is between its start and its setPatients
LoadsSettled == \A k \in Slots : loads[k].pc \notin {"list", "details"}

\* C17: each change of the selected trial identifier issues one match request
\* for the new identifier (checked where no patient load is still to end),
\* and selecting the selected trial again issues none.
C17_OneRequestPerChange ==
    [][LET old == MatchTrialId(selectedTrial)
           new == MatchTrialId(selectedTrial')
       IN  /\ (new # old /\ new # NoId /\ LoadsSettled)
              => matchReqs'[new].live = matchReqs[new].live + 1
           /\ (selectedTrial # NullTrial /\ new = old) => matchReqs' = matchReqs]_vars

\* C18: once a trial of the results is selected and no patient load is in
\* progress any more, the match request for that trial has been issued: the
\* match display is mounted on the trial, whatever the patient list holds.
C18_SelectedTrialIsRequested ==
    (/\ showMatchResults
     /\ MatchTrialId(selectedTrial) # NoId
     /\ LoadsSettled)
    => ms4.mounted /\ ms4.trialId = MatchTrialId(selectedTrial)

\* C19: the match results the display holds for its trial identifier were
\* produced by a match reply for that identifier.
C19_ResultsBelongToTrial ==
    ShowsResults
    => \A i \in 1..Len(ms4.matchResults) :
          ms4.matchResults[i].trial = ms4.trialId

\* C20: the expansion state is back to none expanded after every change of
\* the trial the match display shows.
C20_ExpansionResetOnTrialChange ==
    [][(ms4.mounted /\ ms4'.mounted /\ ms4'.trialId # ms4.trialId)
       => ms4'.expandedPatient = NoPatient]_vars

\* C14: at most one search request is in flight at any time, whether the
\* search is started by the button or by the Enter key.
C14_OneSearchInFlight == box.search <= 1

\* the render reaches the error box
ShowsError == ms4.mounted /\ ~ms4.loading /\ ms4.error # ""

\* the render reaches "No match results available yet"
ShowsEmpty ==
    ms4.mounted /\ ~ms4.loading /\ ms4.error = "" /\ ms4.matchResults = <<>>

\* C21: a match request that fails ends in the error state, and one that
\* succeeds with no ranked result ends in the empty state with no error set.
C21_FailedAndEmptyDiffer ==
    /\ ms4.res = "failed" => ShowsError
    /\ ms4.res = "empty" => ShowsEmpty

\* the band a class name or a label stands for
Band(name) ==
    CASE name \in {"match-excellent", "Excellent Match"} -> "excellent"
      [] name \in {"match-good", "Good Match"} -> "good"
      [] name \in {"match-fair", "Fair Match"} -> "fair"
      [] OTHER -> "poor"

\* C22: the class of a rendered result is excellent iff p >= 80, good iff
\* 60 <= p < 80, fair iff 40 <= p < 60 and poor iff p < 40, and the label
\* is of the same band as the class.
C22_QualityBands ==
    (calc.fn = "quality" /\ calc.done)
    => /\ Band(calc.class) = "excellent" <=> calc.p >= 800
       /\ Band(calc.class) = "good" <=> (600 <= calc.p /\ calc.p < 800)
       /\ Band(calc.class) = "fair" <=> (400 <= calc.p /\ calc.p < 600)
       /\ Band(calc.class) = "poor" <=> calc.p < 400
       /\ Band(calc.label) = Band(calc.class)

\* the rank the rank comparator works with
EffRank(r) == IF r.rank = 0 THEN 999 ELSE r.rank

\* a and b are equal under the key
SameKey(sortBy, a, b) ==
    CASE sortBy = "percentage" -> a.match_percentage = b.match_percentage
      [] sortBy = "name" -> a.patient_id = b.patient_id
      [] OTHER -> EffRank(a) = EffRank(b)

\* the entries of s that are a or b, in their order
Only(s, a, b) == LET Is(e) == e \in {a, b} IN SelectSeq(s, Is)

\* results with equal keys keep their input order
KeepsTies ==
    \A a \in ResultPool, b \in ResultPool :
        SameKey(calc.sortBy, a, b) => Only(calc.out, a, b) = Only(calc.x, a, b)

\* percentages downwards, identifiers in lexicographic order
PercentageAndNameOrdered ==
    \A i \in 1..Len(calc.out), j \in 1..Len(calc.out) :
        i < j =>
          CASE calc.sortBy = "percentage" ->
                 calc.out[i].match_percentage >= calc.out[j].match_percentage
            [] calc.sortBy = "name" ->
                 LexCmp(calc.out[i].patient_id, calc.out[j].patient_id) <= 0
            [] OTHER -> TRUE

ByRank == calc.sortBy \in {"score", "rank"}

Count(s, r) == Cardinality({ i \in 1..Len(s) : s[i] = r })

\* C24: sortResults returns a permutation of its input, leaves the array it
\* was given and every result unchanged, sends no request, and sorting its
\* output again returns the same list.
C24_SortIsPureAndIdempotent ==
    (calc.fn = "sort" /\ calc.done)
    => /\ \A r \in ResultPool : Count(calc.out, r) = Count(calc.x, r)
       /\ Len(calc.out) = Len(calc.x)
       /\ calc.arg = calc.x
       /\ calc.again = calc.out
       /\ matchReqs = NoMatchReqs

\* a list that was not in percentage order has been sorted by percentage
C24_Witness ==
    /\ calc.fn = "sort" /\ calc.done /\ calc.sortBy = "percentage"
    /\ Len(calc.x) = 3
    /\ calc.out # calc.x

\* C25: once the displayed status has left "unknown" it never shows
\* "unknown" again while the monitor stays mounted; a failed poll shows
\* "unreachable".
C25_UnknownNotReentered ==
    [][(mon.mounted /\ mon'.mounted /\ Status # "unknown")
       => Status' # "unknown"]_vars

\* C26: from a poll tick until the reply of that poll the status is
\* "checking", and with no poll in flight it is one of reachable-healthy,
\* reachable-degraded and unreachable.
C26_CheckingWhilePolling ==
    mon.mounted
    => /\ mon.polls > 0 => Status = "checking"
       /\ mon.polls = 0 => Status \in {"reachable-healthy",
                                       "reachable-degraded", "unreachable"}

\* a request was sent by a tick of a timer
TimerPolls ==
    \/ mon'.inits > mon.inits /\ mon'.mounts = mon.mounts
    \/ mon'.polls > mon.polls /\ mon'.via = "timer"

\* C27: mounting the monitor of two timers starts both, with different
\* periods; after teardown neither runs and no tick of a timer starts a
\* poll, over every sequence of mounts and teardowns.
C27_TimersFollowMount ==
    [][/\ (~mon.mounted /\ mon'.mounted /\ mon'.kind = "part_006")
          => /\ mon'.healthTimer /\ mon'.initTimer
             /\ mon'.nextHealth # mon'.nextInit
       /\ ~mon'.mounted => (~mon'.healthTimer /\ ~mon'.initTimer)
       /\ TimerPolls => (mon.mounted /\ mon'.mounted)]_vars

\* the monitor of two timers is torn down for the second time, and time has
\* passed since
C27_Witness ==
    /\ ~mon.mounted
    /\ mon.kind = "part_006"
    /\ mon.mounts = 2
    /\ mon.initStatus = "data"
    /\ mon.now > mon.nextInit

\* C28: a manual refresh puts the status in "checking", sends one poll and
\* leaves the timer as it is: the next tick is due when it was due before.
C28_RefreshKeepsSchedule ==
    [][(mon'.via = "refresh" /\ mon'.polls = mon.polls + 1)
       => /\ Status' = "checking"
          /\ mon'.healthTimer = mon.healthTimer
          /\ mon'.nextHealth = mon.nextHealth
          /\ mon'.now = mon.now]_vars

\* a refresh was made between the first tick and the second, whose time is
\* still the one the first tick left
C28_Witness ==
    /\ mon.mounted
    /\ mon.kind = "part_005"
    /\ mon.via = "refresh"
    /\ mon.polls = 1
    /\ Status = "checking"
    /\ mon.now > SinglePeriod
    /\ mon.nextHealth = 2 * SinglePeriod

\* ---- C29: the failure of one item of a batch (the criteria request of
\* one trial, the phenotype request of one patient) leaves the top-level
\* error, the search results and the values of the other items of the batch
\* as they were, and the item itself is recorded as its sentinel (criteria)
\* or as the minimal record of the identifier list (patient)
CriteriaItemStep(k) == batches[k].pc = "await" /\ batches'[k] # batches[k]

CriteriaItemKey(k) == CriteriaKey(variant, batches[k].trials[batches[k].i])

\* the cache of batch k after the step: its local copy while it runs, the
\* stored cache once it has called setParsedCache
CacheOfBatchAfter(k) ==
    IF batches'[k].pc = "await" THEN batches'[k].cache ELSE parsedCache'

CriteriaItemFailed(k) ==
    CriteriaItemStep(k) /\ CacheOfBatchAfter(k)[CriteriaItemKey(k)] # Doc

DetailItemStep(k) == loads[k].pc = "details" /\ loads'[k] # loads[k]

\* the values of load k after the step: the settled promises while some
\* are pending, the stored patient list once Promise.all has resolved
ValuesOfLoadAfter(k) ==
    IF loads'[k].pc = "details" THEN loads'[k].res ELSE patients'

DetailItemFailed(k, pos) ==
    /\ DetailItemStep(k)
    /\ pos \in 1..Len(loads[k].ids)
    /\ loads[k].res[pos] = Pending
    /\ ValuesOfLoadAfter(k)[pos] \notin {Pending, [kind |-> "full", req |-> loads[k].ids[pos]]}

ItemFailureIsolated ==
    /\ \A k \in Slots : CriteriaItemFailed(k) =>
          /\ error' = error
          /\ results' = results
          /\ \A t \in TrialIds \ {CriteriaItemKey(k)} :
                CacheOfBatchAfter(k)[t] = batches[k].cache[t]
    /\ \A k \in Slots, pos \in PatientIds : DetailItemFailed(k, pos) =>
          /\ error' = error
          /\ results' = results
          /\ Len(ValuesOfLoadAfter(k)) = Len(loads[k].res)
          /\ \A i \in (1..Len(loads[k].res)) \ {pos} :
                ValuesOfLoadAfter(k)[i] = loads[k].res[i]

ItemFailureRecorded ==
    /\ \A k \in Slots : CriteriaItemFailed(k) =>
          CacheOfBatchAfter(k)[CriteriaItemKey(k)] = NullEntry
    /\ \A k \in Slots, pos \in PatientIds : DetailItemFailed(k, pos) =>
          ValuesOfLoadAfter(k)[pos] = [kind |-> "minimal", req |-> loads[k].ids[pos]]

C29_ItemFailureIsolatedAndRecorded ==
    [][ItemFailureIsolated /\ ItemFailureRecorded]_vars

\* ---- C30: every failed initiating call (the search request, the patient
\* identifier-list request, the match request) leaves an error the page shows
ErrorShown == error \notin {"null", ""}

SearchFailureShown == (SearchReturns /\ SearchFailed') => ErrorShown'

ListFailureShown ==
    \A k \in Slots :
        (loads[k].pc = "list" /\ loads'[k].pc = "failed") => ErrorShown'

MatchFailureShown ==
    (ms4'.mounted /\ ms4'.res = "failed" /\ matchReqs' # matchReqs) => ShowsError'

C30_InitiatingFailureShown ==
    [][SearchFailureShown /\ ListFailureShown /\ MatchFailureShown]_vars

\* ---- C31: the criteria requests of one batch progress independently: while
\* the batch waits for one reply, the request of every other trial it has to
\* fetch has been issued as well, and a parsed document is in the stored
\* cache as soon as its reply has arrived
ToFetch(k) ==
    { j \in 1..Len(batches[k].trials) :
        /\ CriteriaKey(variant, batches[k].trials[j]) # NoId
        /\ ~Truthy(batches[k].cache[CriteriaKey(variant, batches[k].trials[j])]) }

IssuedTogether ==
    \A k \in Slots : batches[k].pc = "await" =>
        \A j \in ToFetch(k) : issued[CriteriaKey(variant, batches[k].trials[j])] > 0

CriteriaItemStored(k) ==
    /\ CriteriaItemStep(k)
    /\ CacheOfBatchAfter(k)[CriteriaItemKey(k)] = Doc

VisibleOnArrival ==
    \A k \in Slots : CriteriaItemStored(k) => parsedCache'[CriteriaItemKey(k)] = Doc

C31_ItemsProgressIndependently == [][IssuedTogether' /\ VisibleOnArrival]_vars

\* ---- C32: once a poll of the initialization-status monitor has returned
\* is_initialized = true, its timer issues no further poll
InitTimerPolls == mon'.inits > mon.inits /\ mon'.mounts = mon.mounts

C32_StopsWhenInitialized ==
    [][(mon.kind = InitMonKind /\ mon.initStatus = "true") => ~InitTimerPolls]_vars

\* ---- C33: a mounted monitor shows the service as reachable-healthy only
\* when the liveness poll that completed last succeeded with the healthy
\* status; after a failed poll it is not shown healthy while the next poll
\* is in flight
C33_HealthyOnlyAfterSuccess ==
    (mon.mounted /\ Status = "reachable-healthy") => mon.last = "alive"

\* ---- C34: after a match request has failed, the successful reply with
\* ranked results for the trial now selected clears the error and the ranked
\* list is displayed
RankedReplyForSelected ==
    /\ ms4.mounted /\ ms4'.mounted
    /\ ms4.trialId \in TrialIds
    /\ ms4'.trialId = ms4.trialId
    /\ matchReqs'[ms4.trialId].live < matchReqs[ms4.trialId].live
    /\ ms4'.res = "ranked"

C34_FailureNotSticky ==
    [][(ms4.error # "" /\ RankedReplyForSelected) => ShowsResults']_vars

\* ---- C35: for every trial of the stored results the identifier its record
\* carries is the key under which its criteria are fetched and the key under
\* which they are looked up for display, and it is the trial identifier of
\* the match component when the trial is selected
CarriedId(trial) == Or(trial.nctid, Or(trial.NCT_ID, Or(trial.nct_id, trial.id)))

C35_OneIdentifier ==
    /\ \A i \in 1..Len(results) :
          /\ CriteriaKey(variant, results[i]) = CarriedId(results[i])
          /\ DisplayKey(variant, results[i]) = CarriedId(results[i])
    /\ (ms4.mounted /\ selectedTrial # NullTrial) =>
          ms4.trialId = CarriedId(selectedTrial)

\* ---- C36: a selected trial is one of the stored search results, the match
\* display flag is set only while a trial is selected, and no trial is
\* selected while a search is loading or after a search that failed or
\* found nothing
Listed(trial) == \E i \in 1..Len(results) : results[i] = trial

SearchFoundNothing == searchReq.res \in SearchOutcomes \ {"trials"}

C36_SelectionWithinResults ==
    /\ selectedTrial # NullTrial => Listed(selectedTrial)
    /\ showMatchResults => selectedTrial # NullTrial
    /\ (loading \/ SearchFoundNothing) =>
          (selectedTrial = NullTrial /\ ~showMatchResults)

\* a second search is loading; it has cleared a selection whose match
\* request was still in flight
C36_Witness ==
    /\ nSearch = 2
    /\ loading
    /\ selectedTrial = NullTrial
    /\ ~showMatchResults
    /\ \E t \in TrialIds : matchReqs[t].dead > 0

\* ---- C37: the patient load a search starts is issued for the condition
\* that was sent in that search request, whatever the selection is when the
\* reply arrives; and search results held together with a non-empty patient
\* list were obtained for the same condition
LoadStarts(k) == loads[k].pc = "idle" /\ loads'[k].pc = "list"

LoadForSentCondition ==
    \A k \in Slots : LoadStarts(k) => loads'[k].cond = searchReq.term

HeldForOneCondition ==
    (results # NullResults /\ patients # <<>>) =>
        heldFor.results = heldFor.patients

C37_OneCondition == [][LoadForSentCondition /\ HeldForOneCondition']_vars

\* ---- C38: the two pollers of the dual-timer monitor do not write each
\* other's state: a reply of the initialization-progress poll leaves the
\* liveness status and the liveness error unchanged and, when it failed,
\* the recorded initialization-progress record as well; a reply of the
\* liveness poll leaves the initialization-progress record unchanged
SameInstance == mon.mounted /\ mon'.mounted /\ mon'.mounts = mon.mounts

InitReplyStep == SameInstance /\ mon'.inits < mon.inits

HealthReplyStep == SameInstance /\ mon'.polls < mon.polls

C38_PollersDisjoint ==
    [][/\ InitReplyStep =>
            /\ mon'.health = mon.health
            /\ mon'.error = mon.error
            /\ mon'.loading = mon.loading
            /\ Status' = Status
       /\ (InitReplyStep /\ mon'.lastInit = "failed") =>
            mon'.initStatus = mon.initStatus
       /\ HealthReplyStep => mon'.initStatus = mon.initStatus]_vars

\* both pollers have failed after both had succeeded; the liveness error is
\* shown and the earlier progress record is still held
C38_Witness ==
    /\ mon.mounted
    /\ mon.kind = "part_006"
    /\ mon.lastInit = "failed"
    /\ mon.initStatus = "data"
    /\ mon.last = "failed"
    /\ mon.health = "alive"
    /\ Status = "unreachable"

\* ---- C39: a trial record without resolvable identifier is skipped by the
\* criteria fetcher: the batch never waits for a request of such a record,
\* and the records after it are still processed, each one fetched unless its
\* criteria were cached
Unresolved(trial) == CriteriaKey(variant, trial) = NoId

Processed(trial, cache) ==
    \/ Unresolved(trial)
    \/ issued[CriteriaKey(variant, trial)] > 0
    \/ Truthy(cache[CriteriaKey(variant, trial)])

C39_UnresolvedSkipped ==
    /\ \A k \in Slots : batches[k].pc = "await" =>
          /\ ~Unresolved(batches[k].trials[batches[k].i])
          /\ \A j \in 1..batches[k].i : Processed(batches[k].trials[j], batches[k].cache)
    /\ (results # NullResults /\ batches[nSearch].pc = "done") =>
          \A j \in 1..Len(results) : Processed(results[j], parsedCache)

\* the batch has passed a record without identifier and waits for the
\* request of the record after it
C39_Witness ==
    \E k \in Slots :
        /\ batches[k].pc = "await"
        /\ batches[k].i = 2
        /\ Unresolved(batches[k].trials[1])
        /\ issued[CriteriaKey(variant, batches[k].trials[2])] = 1

====
